---- MODULE Spec2Model ----
(***************************************************************************)
(* Vertical label placement (src/src/lib.rs).                              *)
(*                                                                         *)
(* One behaviour is one caller: it picks a non-decreasing sequence of      *)
(* preferred positions and a separation, runs place() on it, and then runs *)
(* place_with_limits() on the same input with limits of its choice.  Both  *)
(* sweeps are modelled step by step: one action for the head of the for    *)
(* loop, one for an iteration of the while loop that merges, one for the   *)
(* exit of the while loop followed by push(), one for positions().         *)
(*                                                                         *)
(* Positions, separations and limits are small integers, far from the      *)
(* ends of i32: the arithmetic of the sweep never leaves the i32 range in  *)
(* the states explored, so it is modelled on the integers.                 *)
(***************************************************************************)
EXTENDS Integers, Sequences, FiniteSets

\* ------------------------------------------------------------------ bounds
MaxLen == 4          \* longest input sequence
MaxPos == 3          \* preferred positions are drawn from 0..MaxPos
MaxSep == 3          \* separations are drawn from 1..MaxSep
LimitMargin == 2     \* limits are drawn from -LimitMargin..MaxPos+LimitMargin

VARIABLES
    positions,    \* the argument `positions`
    separation,   \* the argument `separation` (also ClusterList.separation)
    min,          \* the argument `min` of place_with_limits
    max,          \* the argument `max` of place_with_limits
    fn,           \* the function being executed
    pc,           \* "for": head of the for loop, "while": head of the while
                  \* loop, "done": the function has returned
    index,        \* number of positions the for loop has taken
    cluster,      \* the local variable `cluster`
    vec,          \* ClusterList.vec
    permitted,    \* the vector returned by place
    limited       \* the vector returned by place_with_limits

vars == <<positions, separation, min, max, fn, pc, index, cluster, vec,
          permitted, limited>>

\* ------------------------------------------------------- integer helpers
\* std::cmp::min and std::cmp::max
CmpMin(a, b) == IF a <= b THEN a ELSE b

CmpMax(a, b) == IF a >= b THEN a ELSE b

\* i32 division: the quotient is rounded toward zero
TruncDiv(a, b) == IF a >= 0 THEN a \div b ELSE 0 - ((0 - a) \div b)

Abs(a) == IF a >= 0 THEN a ELSE 0 - a

\* ------------------------------------------------------------- Cluster
New(position) ==
    [start |-> position, end |-> position, min_offset |-> 0, max_offset |-> 0]

\* a shift that moves the positions but forgets the offsets
ShiftPositionsOnly(c, offset) ==
    [c EXCEPT !.start = c.start + offset, !.end = c.end + offset]

Shift(c, offset) ==
    [start      |-> c.start + offset,
     end        |-> c.end + offset,
     min_offset |-> c.min_offset + offset,
     max_offset |-> c.max_offset + offset]

\* a balance whose division rounds down instead of toward zero
BalanceFloor(c) ==
    LET imbalance == (c.min_offset + c.max_offset) \div 2
    IN  IF imbalance # 0 THEN Shift(c, 0 - imbalance) ELSE c

\* a balance that removes the whole imbalance instead of half of it
BalanceUnhalved(c) ==
    LET imbalance == c.min_offset + c.max_offset
    IN  IF imbalance # 0 THEN Shift(c, 0 - imbalance) ELSE c

Balance(c) ==
    LET imbalance == TruncDiv(c.min_offset + c.max_offset, 2)
    IN  IF imbalance # 0 THEN Shift(c, 0 - imbalance) ELSE c

\* a merge that closes the gap completely, forgetting the separation
MergeTouching(first, second, sep) ==
    LET shifted == Shift(first, second.start - first.end)
    IN  Balance([start      |-> shifted.start,
                 end        |-> second.end,
                 min_offset |-> CmpMin(shifted.min_offset, second.min_offset),
                 max_offset |-> CmpMax(shifted.max_offset, second.max_offset)])

\* a merge that takes the offsets of the first cluster before shifting it
MergeStaleOffsets(first, second, sep) ==
    LET shifted == Shift(first, second.start - first.end - sep)
    IN  Balance([start      |-> shifted.start,
                 end        |-> second.end,
                 min_offset |-> CmpMin(first.min_offset, second.min_offset),
                 max_offset |-> CmpMax(first.max_offset, second.max_offset)])

Merge(first, second, sep) ==
    LET shifted == Shift(first, second.start - first.end - sep)
    IN  Balance([start      |-> shifted.start,
                 end        |-> second.end,
                 min_offset |-> CmpMin(shifted.min_offset, second.min_offset),
                 max_offset |-> CmpMax(shifted.max_offset, second.max_offset)])

\* a limit that applies the maximum first, so that the minimum wins
LimitMinWins(c, lo, hi) ==
    LET a == IF c.end > hi THEN Shift(c, hi - c.end) ELSE c
    IN  IF a.start < lo THEN Shift(a, lo - a.start) ELSE a

\* a limit that treats the limits as exclusive
LimitExclusive(c, lo, hi) ==
    LET a == IF c.start <= lo THEN Shift(c, lo - c.start + 1) ELSE c
    IN  IF a.end >= hi THEN Shift(a, hi - a.end - 1) ELSE a

Limit(c, lo, hi) ==
    LET a == IF c.start < lo THEN Shift(c, lo - c.start) ELSE c
    IN  IF a.end > hi THEN Shift(a, hi - a.end) ELSE a

\* ---------------------------------------------------------- ClusterList
\* a test that forgets the separation
NotSeparateOverlapOnly(v, c, sep) ==
    /\ Len(v) > 0
    /\ v[Len(v)].end > c.start

\* a test that measures from the start of the previous cluster
NotSeparateFromStart(v, c, sep) ==
    /\ Len(v) > 0
    /\ v[Len(v)].start + sep > c.start

\* a test that pops whenever there is a previous cluster
NotSeparateAlways(v, c, sep) ==
    Len(v) > 0

\* pop_if_not_separate returns Some(previous) exactly when this holds
NotSeparate(v, c, sep) ==
    /\ Len(v) > 0
    /\ v[Len(v)].end + sep > c.start

\* the vector left by vec.pop()
Pop(v) == SubSeq(v, 1, Len(v) - 1)

\* the inner loop of positions(): position, position + sep, ... while <= end
RECURSIVE Emit(_, _, _)
Emit(position, end, sep) ==
    IF position <= end
    THEN <<position>> \o Emit(position + sep, end, sep)
    ELSE <<>>

\* the outer loop of positions()
RECURSIVE Positions(_, _)
Positions(v, sep) ==
    IF v = <<>>
    THEN <<>>
    ELSE Emit(v[1].start, v[1].end, sep) \o Positions(Tail(v), sep)

\* ------------------------------------------------------------- inputs
\* the documented precondition: positions are supplied in non-decreasing order
IsNonDecreasing(s) == \A i \in 1..(Len(s) - 1) : s[i] <= s[i + 1]

Inputs ==
    {s \in UNION {[1..n -> 0..MaxPos] : n \in 0..MaxLen} : IsNonDecreasing(s)}

Separations == 1..MaxSep

Limits == (0 - LimitMargin)..(MaxPos + LimitMargin)

\* ------------------------------------------------------------ behaviour
Init ==
    /\ positions \in Inputs
    /\ separation \in Separations
    /\ min = 0
    /\ max = 0
    /\ fn = "place"
    /\ pc = "for"
    /\ index = 0
    /\ cluster = New(0)
    /\ vec = <<>>
    /\ permitted = <<>>
    /\ limited = <<>>

\* place: the for loop takes the next position
PlaceNext ==
    /\ fn = "place"
    /\ pc = "for"
    /\ index < Len(positions)
    /\ index' = index + 1
    /\ cluster' = New(positions[index + 1])
    /\ pc' = "while"
    /\ UNCHANGED <<positions, separation, min, max, fn, vec, permitted, limited>>

\* place: pop_if_not_separate returns the previous cluster, which is merged
PlaceMerge ==
    /\ fn = "place"
    /\ pc = "while"
    /\ NotSeparate(vec, cluster, separation)
    /\ vec' = Pop(vec)
    /\ cluster' = Merge(vec[Len(vec)], cluster, separation)
    /\ UNCHANGED <<positions, separation, min, max, fn, pc, index, permitted,
                   limited>>

\* place: pop_if_not_separate returns None, the cluster is pushed
PlacePush ==
    /\ fn = "place"
    /\ pc = "while"
    /\ ~NotSeparate(vec, cluster, separation)
    /\ vec' = Append(vec, cluster)
    /\ pc' = "for"
    /\ UNCHANGED <<positions, separation, min, max, fn, index, cluster,
                   permitted, limited>>

\* place: the for loop is over, positions() builds the result
PlaceReturn ==
    /\ fn = "place"
    /\ pc = "for"
    /\ index = Len(positions)
    /\ permitted' = Positions(vec, separation)
    /\ pc' = "done"
    /\ UNCHANGED <<positions, separation, min, max, fn, index, cluster, vec,
                   limited>>

\* the caller calls place_with_limits on the same input, with min <= max
LimitsCall ==
    /\ fn = "place"
    /\ pc = "done"
    /\ \E lo \in Limits : \E hi \in Limits :
          /\ lo <= hi
          /\ min' = lo
          /\ max' = hi
    /\ fn' = "place_with_limits"
    /\ pc' = "for"
    /\ index' = 0
    /\ vec' = <<>>
    /\ cluster' = New(0)
    /\ UNCHANGED <<positions, separation, permitted, limited>>

\* place_with_limits: the for loop takes the next position
LimitsNext ==
    /\ fn = "place_with_limits"
    /\ pc = "for"
    /\ index < Len(positions)
    /\ index' = index + 1
    /\ cluster' = Limit(New(positions[index + 1]), min, max)
    /\ pc' = "while"
    /\ UNCHANGED <<positions, separation, min, max, fn, vec, permitted, limited>>

\* place_with_limits: the previous cluster is popped, merged and limited
LimitsMerge ==
    /\ fn = "place_with_limits"
    /\ pc = "while"
    /\ NotSeparate(vec, cluster, separation)
    /\ vec' = Pop(vec)
    /\ cluster' = Limit(Merge(vec[Len(vec)], cluster, separation), min, max)
    /\ UNCHANGED <<positions, separation, min, max, fn, pc, index, permitted,
                   limited>>

\* place_with_limits: pop_if_not_separate returns None, the cluster is pushed
LimitsPush ==
    /\ fn = "place_with_limits"
    /\ pc = "while"
    /\ ~NotSeparate(vec, cluster, separation)
    /\ vec' = Append(vec, cluster)
    /\ pc' = "for"
    /\ UNCHANGED <<positions, separation, min, max, fn, index, cluster,
                   permitted, limited>>

\* place_with_limits: the for loop is over, positions() builds the result
LimitsReturn ==
    /\ fn = "place_with_limits"
    /\ pc = "for"
    /\ index = Len(positions)
    /\ limited' = Positions(vec, separation)
    /\ pc' = "done"
    /\ UNCHANGED <<positions, separation, min, max, fn, index, cluster, vec,
                   permitted>>

Next ==
    \/ PlaceNext
    \/ PlaceMerge
    \/ PlacePush
    \/ PlaceReturn
    \/ LimitsCall
    \/ LimitsNext
    \/ LimitsMerge
    \/ LimitsPush
    \/ LimitsReturn

Spec == Init /\ [][Next]_vars

\* ------------------------------------------------- vocabulary of the claims
PlaceReturned == fn = "place_with_limits" \/ pc = "done"

LimitsReturned == fn = "place_with_limits" /\ pc = "done"

\* consecutive values of out are at least sep apart
Separated(out, sep) ==
    \A i \in 1..(Len(out) - 1) : out[i + 1] - out[i] >= sep

\* the limits leave room for every label at the minimum separation
RoomForAll == (Len(positions) - 1) * separation <= max - min

\* the largest |out[i] - positions[i]|, for out as long as positions
MaxAbsOffset(out) ==
    LET offsets == {Abs(out[i] - positions[i]) : i \in 1..Len(positions)}
    IN  CHOOSE m \in offsets : \A o \in offsets : o <= m

\* some integers x[i..n], at least sep apart, with x[i] >= lowest,
\* x[n] <= highest and |x[j] - p[j]| <= d for every j
RECURSIVE ExistsPlacement(_, _, _, _, _, _)
ExistsPlacement(p, sep, d, i, lowest, highest) ==
    IF i > Len(p)
    THEN TRUE
    ELSE \E x \in CmpMax(lowest, p[i] - d)..(p[i] + d) :
            /\ (i = Len(p) => x <= highest)
            /\ ExistsPlacement(p, sep, d, i + 1, x + sep, highest)

\* the number of positions that positions() emits for a cluster
SizeOf(c) == Len(Emit(c.start, c.end, separation))

\* the input index of the first member of the k-th cluster of v, the clusters
\* holding consecutive runs of the input
RECURSIVE FirstMember(_, _)
FirstMember(v, k) ==
    IF k <= 1 THEN 1 ELSE FirstMember(v, k - 1) + SizeOf(v[k - 1])

\* cluster c holds the inputs a..b at exact spacing and its offsets are theirs
ExactOffsets(c, a, b) ==
    /\ a <= b
    /\ b <= Len(positions)
    /\ c.end = c.start + (b - a) * separation
    /\ LET offsets == {c.start + (j - a) * separation - positions[j] : j \in a..b}
       IN  /\ c.min_offset \in offsets
           /\ c.max_offset \in offsets
           /\ \A o \in offsets : c.min_offset <= o /\ o <= c.max_offset

\* ------------------------------------------------------------------ claims

\* C1: consecutive values of the output of place, and of the output of
\* place_with_limits whatever the limits, are at least separation apart.
C1_MinimumSeparation ==
    /\ Separated(permitted, separation)
    /\ Separated(limited, separation)

C1_Witness ==
    /\ LimitsReturned
    /\ Len(limited) >= 3
    /\ ~RoomForAll
    /\ limited # permitted
    /\ limited[1] < min

\* C2: both functions return as many positions as they were given, every
\* cluster of the stack spanning one separation per member after the first.
C2_SameLength ==
    /\ PlaceReturned => Len(permitted) = Len(positions)
    /\ LimitsReturned => Len(limited) = Len(positions)
    /\ \A k \in 1..Len(vec) :
          /\ vec[k].start <= vec[k].end
          /\ (vec[k].end - vec[k].start) % separation = 0
    /\ pc # "while" => FirstMember(vec, Len(vec) + 1) = index + 1

C2_Witness ==
    /\ LimitsReturned
    /\ Len(positions) >= 3
    /\ Len(vec) >= 2
    /\ Len(vec) < Len(positions)

\* C3: the output of place is separated, and no separated sequence of
\* integers has a smaller maximum absolute offset from the input.
C3_PlaceMinimisesMaxOffset ==
    (PlaceReturned /\ Len(positions) >= 1) =>
        /\ Len(permitted) = Len(positions)
        /\ Separated(permitted, separation)
        /\ LET d == MaxAbsOffset(permitted)
               n == Len(positions)
           IN  ~ExistsPlacement(positions, separation, d - 1, 1,
                                positions[1] - d, positions[n] + d)

C3_Witness ==
    /\ fn = "place"
    /\ pc = "done"
    /\ Len(positions) >= 3
    /\ positions[1] # positions[Len(positions)]
    /\ Len(permitted) = Len(positions)
    /\ MaxAbsOffset(permitted) >= 2

\* C4: no output of place_with_limits exceeds max; the outputs of a cluster
\* no wider than max - min lie in [min, max]; when the limits leave room for
\* every label, every output lies in [min, max].
C4_LimitsRespected ==
    LimitsReturned =>
        /\ \A i \in 1..Len(limited) : limited[i] <= max
        /\ \A k \in 1..Len(vec) :
              vec[k].end - vec[k].start <= max - min =>
                  LET out == Emit(vec[k].start, vec[k].end, separation)
                  IN  \A i \in 1..Len(out) : min <= out[i] /\ out[i] <= max
        /\ RoomForAll =>
              \A i \in 1..Len(limited) : min <= limited[i] /\ limited[i] <= max

C4_Witness ==
    /\ LimitsReturned
    /\ Len(limited) >= 2
    /\ limited[1] < min
    /\ limited[Len(limited)] = max

\* C5: when consecutive inputs are already separation apart, place never
\* merges (the stack holds the untouched single-position clusters) and
\* returns the input.
AlreadySeparated == Separated(positions, separation)

C5_Idempotence ==
    (fn = "place" /\ AlreadySeparated) =>
        /\ Len(vec) = IF pc = "while" THEN index - 1 ELSE index
        /\ \A k \in 1..Len(vec) : vec[k] = New(positions[k])
        /\ pc = "while" => cluster = New(positions[index])
        /\ pc = "done" => permitted = positions

C5_Witness ==
    /\ fn = "place"
    /\ pc = "done"
    /\ AlreadySeparated
    /\ Len(positions) >= 3
    /\ permitted = positions

\* C6: n identical positions p give one cluster that starts at
\* p - ceil((n-1)*s/2): the first and last offsets sum to 0 or to -1.
AllIdentical == \A i \in 1..Len(positions) : positions[i] = positions[1]

C6_IdenticalPositions ==
    (fn = "place" /\ pc = "done" /\ Len(positions) >= 1 /\ AllIdentical) =>
        LET n == Len(positions)
            w == (n - 1) * separation
        IN  /\ Len(vec) = 1
            /\ Len(permitted) = n
            /\ \A i \in 1..n :
                  permitted[i] =
                      positions[1] - ((w + 1) \div 2) + (i - 1) * separation
            /\ (permitted[1] - positions[1]) + (permitted[n] - positions[n])
                  = IF w % 2 = 0 THEN 0 ELSE 0 - 1

C6_Witness ==
    /\ fn = "place"
    /\ pc = "done"
    /\ Len(positions) >= 3
    /\ AllIdentical
    /\ ((Len(positions) - 1) * separation) % 2 = 1
    /\ Len(permitted) = Len(positions)

\* C7: when the limits leave room for every label, the output of
\* place_with_limits is separated and inside the limits, and no separated
\* sequence inside the limits has a smaller maximum absolute offset.
C7_LimitsMinimiseMaxOffset ==
    (LimitsReturned /\ Len(positions) >= 1 /\ RoomForAll) =>
        /\ Len(limited) = Len(positions)
        /\ Separated(limited, separation)
        /\ min <= limited[1]
        /\ limited[Len(limited)] <= max
        /\ ~ExistsPlacement(positions, separation, MaxAbsOffset(limited) - 1,
                            1, min, max)

C7_Witness ==
    /\ LimitsReturned
    /\ RoomForAll
    /\ Len(positions) >= 3
    /\ Len(limited) = Len(positions)
    /\ limited # permitted
    /\ MaxAbsOffset(limited) >= 2
    /\ Len(vec) >= 2

\* C8: adjacent clusters of the stack are always at least separation apart,
\* and a push happens only onto a top that is separation before the cluster.
StackSeparated ==
    \A k \in 1..(Len(vec) - 1) : vec[k].end + separation <= vec[k + 1].start

PushedWhenSeparate ==
    (Len(vec') = Len(vec) + 1 /\ Len(vec) >= 1) =>
        vec[Len(vec)].end + separation <= vec'[Len(vec')].start

C8_StackInvariant == [](StackSeparated) /\ [][PushedWhenSeparate]_vars

C8_Witness ==
    /\ fn = "place_with_limits"
    /\ pc = "for"
    /\ Len(vec) >= 2
    /\ vec[Len(vec)].start < vec[Len(vec)].end
    /\ vec[1].start < vec[1].end

\* C9: min_offset and max_offset of every cluster of the stack and of the
\* current cluster are the least and the greatest offset of its members.
C9_OffsetBookkeeping ==
    /\ \A k \in 1..Len(vec) :
          LET a == FirstMember(vec, k)
          IN  ExactOffsets(vec[k], a, a + SizeOf(vec[k]) - 1)
    /\ pc = "while" => ExactOffsets(cluster, FirstMember(vec, Len(vec) + 1), index)
    /\ \A k \in 1..Len(vec) : vec[k].min_offset <= vec[k].max_offset
    /\ cluster.min_offset <= cluster.max_offset

C9_Witness ==
    /\ fn = "place_with_limits"
    /\ pc = "while"
    /\ Len(vec) >= 1
    /\ cluster.start < cluster.end
    /\ cluster.max_offset < 0

\* C10: when every value returned by place lies in [min, max],
\* place_with_limits returns the same values and limit moves no cluster.
LimitsNotNeeded ==
    /\ fn = "place_with_limits"
    /\ \A i \in 1..Len(permitted) : min <= permitted[i] /\ permitted[i] <= max

LimitMovesNothing ==
    (LimitsNotNeeded /\ pc' = "while") =>
        cluster' = IF pc = "for"
                   THEN New(positions[index'])
                   ELSE IF vec' = vec
                        THEN cluster
                        ELSE Merge(vec[Len(vec)], cluster, separation)

C10_AgreesWhenLimitsNotNeeded ==
    /\ []((LimitsNotNeeded /\ pc = "done") => limited = permitted)
    /\ [][LimitMovesNothing]_vars

C10_Witness ==
    /\ LimitsReturned
    /\ LimitsNotNeeded
    /\ Len(positions) >= 3
    /\ permitted # positions
    /\ permitted[1] = min
    /\ permitted[Len(permitted)] = max
    /\ limited = permitted

====
